---- MODULE Spec2Model ----
(***************************************************************************)
(* Model of the Title block tool (src/src/index.js): one instance, the     *)
(* heading element it owns, the record `_data` refers to, and the calls    *)
(* the host editor makes on it.                                            *)
(*                                                                         *)
(* Strings are sequences of lexical units (Tokens): a letter, a space, a   *)
(* bare ampersand, the character reference "&amp;", and the start and end  *)
(* tag of one inline element.  The content of an element is the preorder   *)
(* listing of its child nodes: a text character is itself, an element is   *)
(* "B(" , its children, ")B".  Assigning innerHTML parses a string into    *)
(* such a listing, reading innerHTML serializes the listing.               *)
(***************************************************************************)
EXTENDS Integers, Sequences, FiniteSets, TLC

VARIABLES pc, _placeholder, _preserveBlank, _data, dataText, _element,
          elements, innerHTML, allocs, ret

vars == <<pc, _placeholder, _preserveBlank, _data, dataText, _element,
          elements, innerHTML, allocs, ret>>

\* ----------------------------------------------------------------- bounds
\* Longest string (in tokens) of the exhaustive input sets.
MaxLen == 3

\* Records the caller owns and may hand to the instance.
NCaller == 2

\* Records the instance may allocate (`{}` and `{text: ...}` literals).
MaxAllocs == 4

\* ------------------------------------------------------------ value sets
Tokens == {" ", "a", "&", "&amp;", "<b>", "</b>"}

RECURSIVE StringsOfLen(_)
StringsOfLen(n) ==
  IF n = 0 THEN {<<>>}
  ELSE {Append(s, t) : s \in StringsOfLen(n - 1), t \in Tokens}

\* Every string of at most MaxLen tokens.
Strings == UNION {StringsOfLen(n) : n \in 0..MaxLen}

\* The strings the host uses in the life-cycle specification: empty, blank,
\* plain, closed markup, unclosed markup, a stray end tag, a bare ampersand
\* and an ampersand written as a character reference.
Samples ==
  {<<>>, <<" ">>, <<"a">>, <<"<b>", "a", "</b>">>, <<"<b>", "a">>,
   <<"</b>", "a">>, <<"a", "&">>, <<"a", "&amp;">>}

\* An optional property of a JS object: present with a value, or undefined.
Some(v) == [has |-> TRUE, v |-> v]

NoText == [has |-> FALSE, v |-> <<>>]

TextInputs(strings) == {NoText} \cup {Some(s) : s \in strings}

CallerRecs == 1..NCaller

NoRef == [owner |-> "none", id |-> 0]

CallerRef(i) == [owner |-> "caller", id |-> i]

OwnRef(k) == [owner |-> "instance", id |-> k]

Absent(k) == [kind |-> k, ref |-> NoRef, text |-> NoText]

Record(r, t) == [kind |-> "record", ref |-> r, text |-> t]

\* The `data` argument: undefined, null, or a record the caller owns.
DataInputs(strings) ==
  {Absent(k) : k \in {"undefined", "null"}}
  \cup {Record(CallerRef(i), t) : i \in CallerRecs, t \in TextInputs(strings)}

NoOpt == [has |-> FALSE, v |-> FALSE]

NoPlaceholder == [has |-> FALSE, v |-> ""]

Config(p, b) == [kind |-> "record", placeholder |-> p, preserveBlank |-> b]

\* The `config` argument: undefined, a record without options, full records.
ConfigInputs ==
  {[kind |-> "undefined", placeholder |-> NoPlaceholder, preserveBlank |-> NoOpt],
   Config(NoPlaceholder, NoOpt),
   Config(Some("Title"), Some(TRUE)),
   Config(Some(""), Some(FALSE))}

\* ------------------------------------------------- the element's innerHTML
\* Assignment to innerHTML: the HTML fragment parser.  A start tag opens an
\* element, an end tag closes the open one and is dropped when none is open,
\* an ampersand (bare or as a reference) is the character "&", and the
\* elements still open at the end of the input are closed.
RECURSIVE ParseFrom(_, _, _)
ParseFrom(s, i, depth) ==
  IF i > Len(s)
    THEN [k \in 1..depth |-> ")B"]
    ELSE CASE s[i] = "<b>"  -> <<"B(">> \o ParseFrom(s, i + 1, depth + 1)
           [] s[i] = "</b>" -> IF depth > 0
                                 THEN <<")B">> \o ParseFrom(s, i + 1, depth - 1)
                                 ELSE ParseFrom(s, i + 1, depth)
           [] s[i] \in {"&", "&amp;"} -> <<"&">> \o ParseFrom(s, i + 1, depth)
           [] OTHER -> <<s[i]>> \o ParseFrom(s, i + 1, depth)

Parse(s) == ParseFrom(s, 1, 0)

\* Reading innerHTML: the HTML fragment serializer.
SerializeNode(n) ==
  CASE n = "B(" -> "<b>"
    [] n = ")B" -> "</b>"
    [] n = "&"  -> "&amp;"
    [] OTHER    -> n

Serialize(c) == [k \in 1..Len(c) |-> SerializeNode(c[k])]

\* What the elements of the life-cycle specification hold.
Contents == {Parse(s) : s \in Samples}

\* ------------------------------------------------------------- pure parts
DEFAULT_PLACEHOLDER == ""

ResolvePlaceholder(config) ==
  IF config.placeholder.has /\ config.placeholder.v # ""
    THEN config.placeholder.v
    ELSE DEFAULT_PLACEHOLDER

ResolvePreserveBlank(config) ==
  IF config.preserveBlank.has THEN config.preserveBlank.v ELSE FALSE

IsWhiteSpace(t) == t = " "

RECURSIVE TrimStart(_)
TrimStart(s) ==
  IF s # <<>> /\ IsWhiteSpace(Head(s)) THEN TrimStart(Tail(s)) ELSE s

RECURSIVE TrimEnd(_)
TrimEnd(s) ==
  IF s # <<>> /\ IsWhiteSpace(s[Len(s)])
    THEN TrimEnd(SubSeq(s, 1, Len(s) - 1))
    ELSE s

trim(s) == TrimEnd(TrimStart(s))

\* validate comparing the text with '' without trimming it.
validateNoTrim(savedData, preserveBlank) ==
  IF ~savedData.text.has
    THEN "TypeError"
    ELSE IF savedData.text.v = <<>> /\ ~preserveBlank
           THEN "false"
           ELSE "true"

validate(savedData, preserveBlank) ==
  IF ~savedData.text.has
    THEN "TypeError"
    ELSE IF trim(savedData.text.v) = <<>> /\ ~preserveBlank
           THEN "false"
           ELSE "true"

save(toolsContent) == [text |-> Serialize(toolsContent)]

\* The setter without the `|| ''` fallback: undefined is written as text.
SetterMarkupNoFallback(text) == IF text.has THEN text.v ELSE <<"undefined">>

\* `this._data.text || ''`
SetterMarkup(text) == IF text.has /\ text.v # <<>> THEN text.v ELSE <<>>

\* ---------------------------------------------------------------- actions
Init ==
  /\ pc = "new"
  /\ _placeholder = ""
  /\ _preserveBlank = FALSE
  /\ _data = NoRef
  /\ dataText = NoText
  /\ _element = 0
  /\ elements = 0
  /\ innerHTML = <<>>
  /\ allocs = 0
  /\ ret = [op |-> "none", arg |-> <<>>, val |-> <<>>]

\* The setter appending to what the element holds.
SetDataFromAppend(data, n) ==
  /\ IF data.kind = "record"
       THEN /\ _data' = data.ref
            /\ dataText' = data.text
            /\ allocs' = n
       ELSE /\ _data' = OwnRef(n + 1)
            /\ dataText' = NoText
            /\ allocs' = n + 1
  /\ innerHTML' = innerHTML \o Parse(SetterMarkup(dataText'))

\* `set data(data)`, run when the instance has allocated `n` records.
SetDataFrom(data, n) ==
  /\ IF data.kind = "record"
       THEN /\ _data' = data.ref
            /\ dataText' = data.text
            /\ allocs' = n
       ELSE /\ _data' = OwnRef(n + 1)
            /\ dataText' = NoText
            /\ allocs' = n + 1
  /\ innerHTML' = Parse(SetterMarkup(dataText'))

\* The constructor without its final `this.data = data`.
ConstructNoData(data, config) ==
  /\ pc = "new"
  /\ ret' = [op |-> "construct", arg |-> [data |-> data, config |-> config],
             val |-> <<>>]
  /\ IF config.kind = "undefined"
       THEN /\ pc' = "fault"
            /\ UNCHANGED <<_placeholder, _preserveBlank, _data, dataText,
                           _element, elements, innerHTML, allocs>>
       ELSE /\ pc' = "ready"
            /\ _placeholder' = ResolvePlaceholder(config)
            /\ elements' = elements + 1
            /\ _element' = elements + 1
            /\ _preserveBlank' = ResolvePreserveBlank(config)
            /\ _data' = OwnRef(allocs + 1)
            /\ dataText' = NoText
            /\ allocs' = allocs + 1
            /\ innerHTML' = <<>>

Construct(data, config) ==
  /\ pc = "new"
  /\ ret' = [op |-> "construct", arg |-> [data |-> data, config |-> config],
             val |-> <<>>]
  /\ IF config.kind = "undefined"
       THEN /\ pc' = "fault"
            /\ UNCHANGED <<_placeholder, _preserveBlank, _data, dataText,
                           _element, elements, innerHTML, allocs>>
       ELSE /\ pc' = "ready"
            /\ _placeholder' = ResolvePlaceholder(config)
            /\ elements' = elements + 1
            /\ _element' = elements + 1
            /\ _preserveBlank' = ResolvePreserveBlank(config)
            /\ SetDataFrom(data, allocs + 1)

\* render drawing the view again on every call.
RenderRedraw ==
  /\ pc = "ready"
  /\ elements < MaxAllocs
  /\ elements' = elements + 1
  /\ _element' = elements + 1
  /\ innerHTML' = <<>>
  /\ ret' = [op |-> "render", arg |-> <<>>, val |-> _element']
  /\ UNCHANGED <<pc, _placeholder, _preserveBlank, _data, dataText, allocs>>

Render ==
  /\ pc = "ready"
  /\ ret' = [op |-> "render", arg |-> <<>>, val |-> _element]
  /\ UNCHANGED <<pc, _placeholder, _preserveBlank, _data, dataText, _element,
                 elements, innerHTML, allocs>>

\* validate testing preserveBlank before it touches the text.
ValidateGuardFirst(savedData) ==
  /\ pc = "ready"
  /\ ret' = [op |-> "validate", arg |-> savedData,
             val |-> IF _preserveBlank
                       THEN "true"
                       ELSE validate(savedData, _preserveBlank)]
  /\ UNCHANGED <<pc, _placeholder, _preserveBlank, _data, dataText, _element,
                 elements, innerHTML, allocs>>

Validate(savedData) ==
  /\ pc = "ready"
  /\ ret' = [op |-> "validate", arg |-> savedData,
             val |-> validate(savedData, _preserveBlank)]
  /\ UNCHANGED <<pc, _placeholder, _preserveBlank, _data, dataText, _element,
                 elements, innerHTML, allocs>>

\* save storing the text it read on the internal record, as the getter does.
SaveCaching(node, content) ==
  /\ pc = "ready"
  /\ ret' = [op |-> "save", arg |-> [node |-> node, content |-> content],
             val |-> save(content)]
  /\ dataText' = Some(Serialize(content))
  /\ UNCHANGED <<pc, _placeholder, _preserveBlank, _data, _element,
                 elements, innerHTML, allocs>>

\* save(node): `content` is what `node` holds.
Save(node, content) ==
  /\ pc = "ready"
  /\ ret' = [op |-> "save", arg |-> [node |-> node, content |-> content],
             val |-> save(content)]
  /\ UNCHANGED <<pc, _placeholder, _preserveBlank, _data, dataText, _element,
                 elements, innerHTML, allocs>>

\* onPaste(event): `content` is what the pasted element holds.
OnPaste(content) ==
  /\ pc = "ready"
  /\ allocs < MaxAllocs
  /\ LET data == Record(OwnRef(allocs + 1), Some(Serialize(content)))
     IN /\ ret' = [op |-> "onPaste", arg |-> data.text.v, val |-> <<>>]
        /\ SetDataFrom(data, allocs + 1)
  /\ UNCHANGED <<pc, _placeholder, _preserveBlank, _element, elements>>

\* The getter returning the record as last written, without the refresh.
GetDataCached ==
  /\ pc = "ready"
  /\ ret' = [op |-> "getData", arg |-> [was |-> dataText],
             val |-> [ref |-> _data, text |-> dataText]]
  /\ UNCHANGED <<pc, _placeholder, _preserveBlank, _data, dataText, _element,
                 elements, innerHTML, allocs>>

\* `get data()`; `was` is the text the record held before the read.
GetData ==
  /\ pc = "ready"
  /\ dataText' = Some(Serialize(innerHTML))
  /\ ret' = [op |-> "getData", arg |-> [was |-> dataText],
             val |-> [ref |-> _data, text |-> dataText']]
  /\ UNCHANGED <<pc, _placeholder, _preserveBlank, _data, _element, elements,
                 innerHTML, allocs>>

\* The setter keeping a copy of the caller's record.
SetDataCopy(data) ==
  /\ pc = "ready"
  /\ allocs < MaxAllocs
  /\ ret' = [op |-> "setData", arg |-> data, val |-> <<>>]
  /\ _data' = OwnRef(allocs + 1)
  /\ dataText' = data.text
  /\ allocs' = allocs + 1
  /\ innerHTML' = Parse(SetterMarkup(dataText'))
  /\ UNCHANGED <<pc, _placeholder, _preserveBlank, _element, elements>>

SetData(data) ==
  /\ pc = "ready"
  /\ data.kind = "record" \/ allocs < MaxAllocs
  /\ ret' = [op |-> "setData", arg |-> data, val |-> <<>>]
  /\ SetDataFrom(data, allocs)
  /\ UNCHANGED <<pc, _placeholder, _preserveBlank, _element, elements>>

\* The element is contentEditable: the user replaces what it holds.
UserEdit(content) ==
  /\ pc = "ready"
  /\ innerHTML' = content
  /\ ret' = [op |-> "edit", arg |-> <<>>, val |-> <<>>]
  /\ UNCHANGED <<pc, _placeholder, _preserveBlank, _data, dataText, _element,
                 elements, allocs>>

\* An element of the host's, other than the instance's own.
HostNode == 0

\* ---------------------------------------------------------- specifications
\* The life cycle of one instance.
Next ==
  \/ \E data \in DataInputs(Samples), config \in ConfigInputs :
       Construct(data, config)
  \/ Render
  \/ \E t \in TextInputs(Samples) : Validate([text |-> t])
  \/ Save(_element, innerHTML)
  \/ \E content \in Contents : Save(HostNode, content)
  \/ \E content \in Contents : OnPaste(content)
  \/ GetData
  \/ \E data \in DataInputs(Samples) : SetData(data)
  \/ \E content \in Contents : UserEdit(content)

Spec == Init /\ [][Next]_vars

\* validate on every string of at most MaxLen tokens.
NextValidate ==
  \/ \E k \in {"undefined", "null"}, config \in ConfigInputs :
       Construct(Absent(k), config)
  \/ \E t \in TextInputs(Strings) : Validate([text |-> t])

SpecValidate == Init /\ [][NextValidate]_vars

\* Construction from every string of at most MaxLen tokens, then reads.
NextRoundTrip ==
  \/ \E data \in DataInputs(Strings), config \in ConfigInputs :
       Construct(data, config)
  \/ Render
  \/ Save(_element, innerHTML)

SpecRoundTrip == Init /\ [][NextRoundTrip]_vars

\* ------------------------------------------------------------------ claims
\* A string of white space only (the empty string included).
Blank(s) == \A k \in 1..Len(s) : s[k] = " "

\* Markup as the serializer writes it: every start tag closed, no end tag
\* without its start tag, no bare ampersand.
RECURSIVE SerializedFrom(_, _, _)
SerializedFrom(s, i, depth) ==
  IF i > Len(s)
    THEN depth = 0
    ELSE CASE s[i] = "<b>"  -> SerializedFrom(s, i + 1, depth + 1)
           [] s[i] = "</b>" -> depth > 0 /\ SerializedFrom(s, i + 1, depth - 1)
           [] s[i] = "&"    -> FALSE
           [] OTHER         -> SerializedFrom(s, i + 1, depth)

IsSerialized(s) == SerializedFrom(s, 1, 0)

\* The last call was a data write (the constructor's included) with `ret.arg`.
Wrote == ret.op = "setData" \/ (ret.op = "construct" /\ pc = "ready")

Written == IF ret.op = "construct" THEN ret.arg.data ELSE ret.arg

\* C1: validate of a record whose text is a string returns false exactly when
\* the text is white space only (or empty) and preserveBlank is false, and
\* true in every other case.
C1_ValidateRule ==
  (ret.op = "validate" /\ ret.arg.text.has) =>
    /\ ret.val \in {"true", "false"}
    /\ ret.val = "false" <=> (Blank(ret.arg.text.v) /\ ~_preserveBlank)

C1_Witness ==
  /\ ret.op = "validate"
  /\ ret.arg.text = Some(<<" ", " ">>)
  /\ ~_preserveBlank
  /\ ret.val = "false"

\* C2: construction completes for every data and config, undefined config
\* included, with placeholder defaulted to '' and preserveBlank to false where
\* the option was not supplied.
C2_ConstructionNeverFails ==
  ret.op = "construct" =>
    /\ pc = "ready"
    /\ ~ret.arg.config.placeholder.has => _placeholder = ""
    /\ ~ret.arg.config.preserveBlank.has => _preserveBlank = FALSE

\* C3 as stated: construction with data = {text: t}, t not empty, followed
\* at once by save(render()) returns {text: t}.
C3_RoundTripIdentity ==
  (/\ ret.op = "construct"
   /\ pc = "ready"
   /\ ret.arg.data.kind = "record"
   /\ ret.arg.data.text.has
   /\ ret.arg.data.text.v # <<>>)
    => save(innerHTML) = [text |-> ret.arg.data.text.v]

\* C3 as amended: construction with data = {text: t}, t not empty and in the
\* serializer's form, followed at once by save(render()) returns {text: t}.
C3_RoundTripSerialized ==
  (/\ ret.op = "construct"
   /\ pc = "ready"
   /\ ret.arg.data.kind = "record"
   /\ ret.arg.data.text.has
   /\ ret.arg.data.text.v # <<>>
   /\ IsSerialized(ret.arg.data.text.v))
    => save(innerHTML) = [text |-> ret.arg.data.text.v]

C3_Witness ==
  /\ ret.op = "construct"
  /\ pc = "ready"
  /\ ret.arg.data.text = Some(<<"<b>", "a", "</b>">>)
  /\ save(innerHTML) = [text |-> <<"<b>", "a", "</b>">>]

\* C4: after onPaste of an element whose inner markup is p, whatever came
\* before, save(render()) returns {text: p}.
C4_PasteReplaces ==
  ret.op = "onPaste" => save(innerHTML) = [text |-> ret.arg]

C4_Witness ==
  /\ ret.op = "onPaste"
  /\ ret.arg = <<"<b>", "a", "</b>">>
  /\ allocs >= 3
  /\ save(innerHTML) = [text |-> ret.arg]

\* C5: a read of data returns a record whose text is the element's inner
\* markup at the moment of the read, never the text the record held before.
C5_GetterReadsElement ==
  ret.op = "getData" =>
    /\ ret.val.text = Some(save(innerHTML).text)
    /\ dataText = ret.val.text

\* A read after the user edited the element: the record held another text.
C5_Witness ==
  /\ ret.op = "getData"
  /\ ret.arg.was.has
  /\ Parse(SetterMarkup(ret.arg.was)) # innerHTML
  /\ ret.val.text = Some(<<"a", "&amp;">>)

\* C6: the instance has one element, the one its constructor created, and
\* every render returns it.
C6_OneElement ==
  pc = "ready" =>
    /\ elements = 1
    /\ _element = 1
    /\ ret.op = "render" => ret.val = 1

C6_Witness ==
  /\ ret.op = "render"
  /\ ret.val = 1
  /\ allocs >= 3
  /\ innerHTML # <<>>

\* The record part of C7: the internal record is d, or a new empty record
\* when d is undefined or null.
RecordReplaced ==
  IF Written.kind = "record"
    THEN _data = Written.ref /\ dataText = Written.text
    ELSE _data = OwnRef(allocs) /\ dataText = NoText

\* C7 as stated: a data write with d replaces the internal record and makes
\* the element's inner markup d.text, or '' when d or d.text is absent or
\* falsy.
C7_WriteSetsMarkup ==
  Wrote =>
    /\ RecordReplaced
    /\ save(innerHTML).text =
         (IF Written.text.has THEN Written.text.v ELSE <<>>)

\* C7 as amended: a data write with d replaces the internal record and makes
\* the element hold what the parser builds from d.text alone, so that its
\* inner markup is d.text when d.text is in the serializer's form, and ''
\* when d or d.text is absent or falsy.
C7_WriteSetsContent ==
  Wrote =>
    /\ RecordReplaced
    /\ innerHTML = Parse(IF Written.text.has THEN Written.text.v ELSE <<>>)
    /\ (Written.text.has /\ IsSerialized(Written.text.v))
         => save(innerHTML).text = Written.text.v
    /\ (~Written.text.has \/ Written.text.v = <<>>) => innerHTML = <<>>

C7_Witness ==
  /\ ret.op = "setData"
  /\ allocs >= 3
  /\ Written.text = Some(<<"<b>", "a">>)
  /\ save(innerHTML).text = <<"<b>", "a", "</b>">>

\* C8: save(node) returns {text: inner markup of node} and changes neither
\* the internal record nor the settings nor what the element holds.
C8_SaveIsPureRead ==
  [][ret'.op = "save" =>
       /\ ret'.val = [text |-> Serialize(ret'.arg.content)]
       /\ UNCHANGED <<_data, dataText, _preserveBlank, _placeholder,
                      _element, innerHTML>>]_vars

\* save of a host element whose markup is neither the element's nor the
\* record's.
C8_Witness ==
  /\ ret.op = "save"
  /\ ret.arg.node = HostNode
  /\ ret.arg.content # innerHTML
  /\ dataText.has
  /\ dataText.v # ret.val.text
  /\ ret.val.text # <<>>

\* C9: validate of a record without text faults, whatever preserveBlank is,
\* and leaves the internal record and the element as they were.
C9_MissingTextFaults ==
  [][(ret'.op = "validate" /\ ~ret'.arg.text.has) =>
       /\ ret'.val = "TypeError"
       /\ UNCHANGED <<_data, dataText, innerHTML>>]_vars

C9_Witness ==
  /\ ret.op = "validate"
  /\ ~ret.arg.text.has
  /\ _preserveBlank
  /\ ret.val = "TypeError"

\* C10: the instance keeps the caller's record itself: a write with record r
\* makes r the internal record, every call but a write or a paste leaves the
\* internal record the same object, a read returns that object with its text
\* overwritten by the element's inner markup, and a paste makes the internal
\* record one the instance has just allocated.
C10_RecordShared ==
  [][/\ (ret'.op \in {"setData", "construct"} /\ pc' = "ready"
           /\ (IF ret'.op = "construct" THEN ret'.arg.data ELSE ret'.arg).kind
                = "record")
          => _data' = (IF ret'.op = "construct"
                         THEN ret'.arg.data ELSE ret'.arg).ref
     /\ ret'.op \in {"render", "validate", "save", "edit", "getData"}
          => _data' = _data
     /\ ret'.op = "getData"
          => /\ ret'.val.ref = _data
             /\ dataText' = Some(Serialize(innerHTML))
     /\ ret'.op = "onPaste"
          => /\ _data'.owner = "instance"
             /\ _data'.id > allocs]_vars

\* A read that changed the text of a record of the caller's.
C10_Witness ==
  /\ ret.op = "getData"
  /\ ret.val.ref = CallerRef(1)
  /\ _data = CallerRef(1)
  /\ ret.arg.was # dataText

====
